---- MODULE Spec2Model ----
(***************************************************************************)
(* A model of semester_organizer's persistence layer (collector/db/db.py)  *)
(* and of the Course value object (data/course.py).                        *)
(*                                                                         *)
(* The SQLite database is modelled table by table: a table is the set of   *)
(* its rows, INSERT OR IGNORE adds a row unless a row with the same        *)
(* primary key is there, a SELECT is the set of rows its WHERE clause      *)
(* accepts.  Every public method of Database that the properties below     *)
(* talk about is one action; the action records the call, what it raised   *)
(* and what it returned in the variable `call`, and the caller's next step *)
(* (Return) takes the result away.                                         *)
(*                                                                         *)
(* Columns that no statement of db.py ever compares or branches on         *)
(* (attendance_required, location, description, the capacities,            *)
(* actual_course_number, a meeting's start and end time) travel with their *)
(* row unchanged and are left out of the rows.                             *)
(***************************************************************************)
EXTENDS Integers, Sequences, FiniteSets, TLC

(***************************************************************************)
(* Bounds of the model.                                                    *)
(***************************************************************************)
\* calls of save_academic_activities in one run
MaxSaves == 2
\* length of the course list handed to load_courses_choices
MaxCourses == 2
\* entries of the courses_choices mapping handed to the retriever
MaxChoices == 1
\* entries of the courses_choices mapping where the grouping is looked at
MaxGroupChoices == 2
\* activities handed to one save_academic_activities where lists are saved
MaxActivities == 2

(***************************************************************************)
(* Values.                                                                 *)
(***************************************************************************)
\* Python's None, and SQL's NULL
NONE == "None"

\* data.language.Language.short_name()
Languages == {"en", "he"}

\* data.type.Type: the closed enumeration of activity kinds, lecture,
\* seminar, practice, lab or other
Type == {"LECTURE", "SEMINAR", "PRACTICE", "LAB", "OTHER"}

\* Type.is_lecture(): LECTURE and SEMINAR are the lecture-like kinds
is_lecture(t) == t \in {"LECTURE", "SEMINAR"}

\* Type.is_exercise(): PRACTICE and LAB are the practice-like kinds
is_exercise(t) == t \in {"PRACTICE", "LAB"}

CampusIds == {1, 2}
CourseNames == {"Calculus", "Algebra"}
CourseNumbers == {1, 2}
ParentNumbers == {10}
\* AcademicActivity.lecturer_name is a str: no activity comes without one
LecturerNames == {"Cohen", "Smith"}
ActivityIds == {"a1", "a2"}

\* the campuses a save_campuses call may bring: id -> (english, hebrew)
CampusRows ==
    { [id |-> 1, english_name |-> "Lev", hebrew_name |-> "Lev_he"],
      [id |-> 2, english_name |-> "Tal", hebrew_name |-> "Tal_he"] }

\* the campus names a caller may pass: an english one, a hebrew one
CampusNames == {"Lev", "Tal_he"}

\* data.academic_activity.AcademicActivity, as handed to the save
AcademicActivities(names, types, lecturer_names, numbers, ids, meeting_lists) ==
    [name : names, type : types, lecturer_name : lecturer_names,
     course_number : numbers, parent_course_number : ParentNumbers,
     activity_id : ids, meetings : meeting_lists]

\* data.course_choice.CourseChoice
CourseChoices(names) ==
    [name : names,
     available_teachers_for_lecture : SUBSET LecturerNames,
     available_teachers_for_practice : SUBSET LecturerNames]

\* a courses_choices dict, as the list of its items in iteration order
RECURSIVE ChoiceItems(_, _)
ChoiceItems(names, n) ==
    IF n = 0 THEN {<<>>}
    ELSE LET shorter == ChoiceItems(names, n - 1)
         IN  shorter \cup
             { Append(items, [key |-> c.name, choice |-> c]) :
                 items \in { s \in shorter : Len(s) = n - 1 },
                 c \in CourseChoices(names) }

CoursesChoices(names) ==
    { items \in ChoiceItems(names, MaxChoices) :
        \A i, j \in 1..Len(items) : i # j => items[i].key # items[j].key }

\* data.course.Course, built without an activity_id
Courses ==
    [name : CourseNames, course_number : CourseNumbers,
     parent_course_number : ParentNumbers, activity_id : {NONE}]

\* the course lists of at most n courses
RECURSIVE CourseLists(_)
CourseLists(n) ==
    IF n = 0 THEN {<<>>}
    ELSE LET shorter == CourseLists(n - 1)
         IN  shorter \cup
             { Append(list, c) :
                 list \in { s \in shorter : Len(s) = n - 1 }, c \in Courses }

\* the optional argument courses: List[Course] = None
OptionalCourseLists ==
    { [is_none |-> TRUE, list |-> <<>>] } \cup
    { [is_none |-> FALSE, list |-> list] : list \in CourseLists(MaxCourses) }

VARIABLES
    db,                  \* the database file: "absent", "no_tables", "ready"
    campuses,            \* table campuses
    courses,             \* table courses
    lecturers,           \* table lecturers
    activities,          \* table activities
    courses_lecturers,   \* table courses_lecturers
    meetings,            \* table meetings
    activities_meetings, \* table activities_meetings
    call,                \* the call just made: what was asked, raised, returned
    saves,               \* calls of save_academic_activities so far
    saved,               \* history: the calls of save_academic_activities
                         \* that went through since the tables were made,
                         \* with the campus id each resolved
    the_course           \* a Course instance: its two attendance flags

tables ==
    <<campuses, courses, lecturers, activities, courses_lecturers,
      meetings, activities_meetings>>

vars ==
    <<db, campuses, courses, lecturers, activities, courses_lecturers,
      meetings, activities_meetings, call, saves, saved, the_course>>

Idle == [op |-> "idle"]

(***************************************************************************)
(* SQL.                                                                    *)
(***************************************************************************)
\* INSERT OR IGNORE: the row is dropped when a row with its key is there
InsertOrIgnore(table, row, Key(_)) ==
    IF \E r \in table : Key(r) = Key(row) THEN table ELSE table \cup {row}

\* activities_key gone wrong: the lecturer is part of the key
activities_key_with_lecturer(r) ==
    <<r.activity_id, r.campus_id, r.language_value, r.lecturer_name>>

\* PRIMARY KEY(activity_id, campus_id, language_value)
activities_key(r) == <<r.activity_id, r.campus_id, r.language_value>>

\* PRIMARY KEY(course_number, parent_course_number, lecturer_name,
\*             is_lecture_rule, campus_id, lecturer_name)
courses_lecturers_key(r) ==
    <<r.course_number, r.parent_course_number, r.lecturer_name,
      r.is_lecture_rule, r.campus_id, r.lecturer_name>>

\* PRIMARY KEY(activity_id, meeting_id, campus_id, language_value)
activities_meetings_key(r) ==
    <<r.activity_id, r.meeting_id, r.campus_id, r.language_value>>

\* meetings (id INTEGER PRIMARY KEY, ...)
meetings_key(r) == r.id

\* campuses (id INTEGER PRIMARY KEY, ...)
campuses_key(r) == r.id

\* lecturers (name TEXT PRIMARY KEY)
lecturers_key(r) == r

\* the orders in which a SELECT without ORDER BY may hand over its rows
RECURSIVE fetchall(_)
fetchall(rows) ==
    IF rows = {} THEN {<<>>}
    ELSE UNION { { <<r>> \o rest : rest \in fetchall(rows \ {r}) } : r \in rows }

\* the file is created by sqlite's connect when it is not there
connect(d) == IF d = "absent" THEN "no_tables" ELSE d

(***************************************************************************)
(* load_campus_id: SELECT id FROM campuses WHERE english_name = ? or       *)
(* hebrew_name = ?; fetchone()[0].  The rows of an INTEGER PRIMARY KEY     *)
(* table are scanned by id, so the first row is the one of least id; with  *)
(* no row fetchone() is None and the subscript raises TypeError; with no   *)
(* table the SELECT raises OperationalError.                               *)
(***************************************************************************)
\* load_campus_id gone wrong: an unknown name is answered with no id
\* instead of an exception
load_campus_id_or_none(campus_name) ==
    IF db # "ready" THEN [raised |-> "OperationalError", id |-> 0]
    ELSE IF { r \in campuses : r.english_name = campus_name
                                  \/ r.hebrew_name = campus_name } = {}
         THEN [raised |-> "none", id |-> 0]
         ELSE [raised |-> "none",
               id |-> CHOOSE i \in CampusIds :
                        /\ \E r \in campuses :
                               r.id = i /\ (r.english_name = campus_name
                                            \/ r.hebrew_name = campus_name)
                        /\ \A r \in campuses :
                               (r.english_name = campus_name
                                \/ r.hebrew_name = campus_name) => i <= r.id]

campus_matches(campus_name) ==
    { r \in campuses :
        r.english_name = campus_name \/ r.hebrew_name = campus_name }

load_campus_id(campus_name) ==
    IF db # "ready" THEN [raised |-> "OperationalError", id |-> 0]
    ELSE IF campus_matches(campus_name) = {}
         THEN [raised |-> "TypeError", id |-> 0]
         ELSE [raised |-> "none",
               id |-> CHOOSE i \in { r.id : r \in campus_matches(campus_name) } :
                        \A r \in campus_matches(campus_name) : i <= r.id]

(***************************************************************************)
(* init_database_tables: CREATE TABLE IF NOT EXISTS for every table.       *)
(***************************************************************************)
init_database_tables ==
    /\ call = Idle
    /\ db' = "ready"
    /\ call' = [op |-> "init_database_tables", raised |-> "none"]
    /\ UNCHANGED <<tables, saves, saved, the_course>>

(***************************************************************************)
(* clear_database: nothing without the file, else DROP TABLE IF EXISTS.    *)
(***************************************************************************)
clear_database ==
    /\ call = Idle
    /\ db # "absent"
    /\ db' = "no_tables"
    /\ campuses' = {}
    /\ courses' = {}
    /\ lecturers' = {}
    /\ activities' = {}
    /\ courses_lecturers' = {}
    /\ meetings' = {}
    /\ activities_meetings' = {}
    /\ call' = [op |-> "clear_database", raised |-> "none"]
    /\ saved' = <<>>
    /\ UNCHANGED <<saves, the_course>>

(***************************************************************************)
(* save_campuses: INSERT OR IGNORE each campus of the dict, whose keys are  *)
(* the ids: a campus is added unless its id is in the table.               *)
(***************************************************************************)
save_campuses(rows) ==
    /\ call = Idle
    /\ db' = connect(db)
    /\ IF db = "ready"
       THEN /\ campuses' =
                 { r \in campuses \cup rows :
                     \/ r \in campuses
                     \/ ~ \E q \in campuses : campuses_key(q) = campuses_key(r) }
            /\ call' = [op |-> "save_campuses", raised |-> "none"]
       ELSE /\ campuses' = campuses
            /\ call' = [op |-> "save_campuses", raised |-> "OperationalError"]
    /\ UNCHANGED <<courses, lecturers, activities, courses_lecturers,
                   meetings, activities_meetings, saves, saved, the_course>>

(***************************************************************************)
(* save_academic_activities: for every activity, INSERT OR IGNORE its      *)
(* lecturer, its row, its (course, lecturer, role) row, and for every      *)
(* meeting the meeting and its link to the activity.                       *)
(***************************************************************************)
RECURSIVE save_meetings(_, _, _, _, _)
save_meetings(t, activity_id, ms, campus_id, language) ==
    IF ms = <<>> THEN t
    ELSE LET meeting == Head(ms)
             t1 == [t EXCEPT
                      !.meetings =
                          InsertOrIgnore(@, [id |-> meeting.meeting_id,
                                             day |-> meeting.day],
                                         meetings_key),
                      !.activities_meetings =
                          InsertOrIgnore(@, [activity_id |-> activity_id,
                                             meeting_id |-> meeting.meeting_id,
                                             campus_id |-> campus_id,
                                             language_value |-> language],
                                         activities_meetings_key)]
         IN  save_meetings(t1, activity_id, Tail(ms), campus_id, language)

activity_row(activity, campus_id, language) ==
    [name |-> activity.name,
     activity_type |-> activity.type,
     lecturer_name |-> activity.lecturer_name,
     course_number |-> activity.course_number,
     parent_course_number |-> activity.parent_course_number,
     activity_id |-> activity.activity_id,
     campus_id |-> campus_id,
     language_value |-> language]

courses_lecturers_row(activity, campus_id, language) ==
    [course_number |-> activity.course_number,
     parent_course_number |-> activity.parent_course_number,
     lecturer_name |-> activity.lecturer_name,
     is_lecture_rule |-> is_lecture(activity.type),
     campus_id |-> campus_id,
     language_value |-> language]

save_activity(t, activity, campus_id, language) ==
    LET t1 == [t EXCEPT
                 !.lecturers =
                     InsertOrIgnore(@, activity.lecturer_name, lecturers_key),
                 !.activities =
                     InsertOrIgnore(@, activity_row(activity, campus_id, language),
                                    activities_key),
                 !.courses_lecturers =
                     InsertOrIgnore(@, courses_lecturers_row(activity, campus_id,
                                                            language),
                                    courses_lecturers_key)]
    IN  save_meetings(t1, activity.activity_id, activity.meetings,
                      campus_id, language)

RECURSIVE save_activities(_, _, _, _)
save_activities(t, acts, campus_id, language) ==
    IF acts = <<>> THEN t
    ELSE save_activities(save_activity(t, Head(acts), campus_id, language),
                         Tail(acts), campus_id, language)

save_academic_activities(acts, campus_name, language) ==
    /\ call = Idle
    /\ saves < MaxSaves
    /\ saves' = saves + 1
    /\ db' = connect(db)
    /\ LET campus == load_campus_id(campus_name)
           t == save_activities(
                    [lecturers |-> lecturers, activities |-> activities,
                     courses_lecturers |-> courses_lecturers,
                     meetings |-> meetings,
                     activities_meetings |-> activities_meetings],
                    acts, campus.id, language)
       IN  IF campus.raised # "none"
           THEN /\ call' = [op |-> "save_academic_activities",
                            raised |-> campus.raised]
                /\ UNCHANGED <<lecturers, activities, courses_lecturers,
                               meetings, activities_meetings, saved>>
           ELSE /\ call' = [op |-> "save_academic_activities",
                            raised |-> "none"]
                /\ saved' = Append(saved, [activities |-> acts,
                                           campus_id |-> campus.id,
                                           language |-> language])
                /\ lecturers' = t.lecturers
                /\ activities' = t.activities
                /\ courses_lecturers' = t.courses_lecturers
                /\ meetings' = t.meetings
                /\ activities_meetings' = t.activities_meetings
    /\ UNCHANGED <<campuses, courses, the_course>>

(***************************************************************************)
(* load_activities_by_courses_choices.                                     *)
(***************************************************************************)
lecture_types == {"LECTURE", "SEMINAR"}

practice_types == {"PRACTICE", "LAB"}

\* is_not_null gone wrong: "lecturer_name IS NULL"
is_null(r) == r.lecturer_name = NONE

\* "lecturer_name IS NOT NULL"
is_not_null(r) == r.lecturer_name # NONE

\* f"lecturer_name in ({hold_place_lectures})" if lectures else is_not_null
text_hold_place_lectures(r, lectures) ==
    IF lectures # {} THEN r.lecturer_name \in lectures ELSE is_not_null(r)

\* f"lecturer_name in ({hold_place_practices})" if practices else is_not_null
text_hold_place_practices(r, practices) ==
    IF practices # {} THEN r.lecturer_name \in practices ELSE is_not_null(r)

\* select_activities gone wrong: the lecturers chosen for the lectures
\* filter the practices too
select_activities_one_filter(course_name, course_choice, campus_id, language) ==
    { r \in activities :
        /\ r.name = course_name
        /\ r.language_value = language
        /\ r.campus_id = campus_id
        /\ r.activity_type \in lecture_types \cup practice_types
        /\ text_hold_place_lectures(
               r, course_choice.available_teachers_for_lecture) }

\* select_activities gone wrong: the language is not asked for
select_activities_any_language(course_name, course_choice, campus_id, language) ==
    { r \in activities :
        /\ r.name = course_name
        /\ r.campus_id = campus_id
        /\ \/ /\ r.activity_type \in lecture_types
              /\ text_hold_place_lectures(
                     r, course_choice.available_teachers_for_lecture)
           \/ /\ r.activity_type \in practice_types
              /\ text_hold_place_practices(
                     r, course_choice.available_teachers_for_practice) }

\* SELECT * FROM activities WHERE name = ? AND language_value = ? AND
\* campus_id = ? AND ((activity_type in (?, ?) AND ...) OR (... AND ...))
select_activities(course_name, course_choice, campus_id, language) ==
    { r \in activities :
        /\ r.name = course_name
        /\ r.language_value = language
        /\ r.campus_id = campus_id
        /\ \/ /\ r.activity_type \in lecture_types
              /\ text_hold_place_lectures(
                     r, course_choice.available_teachers_for_lecture)
           \/ /\ r.activity_type \in practice_types
              /\ text_hold_place_practices(
                     r, course_choice.available_teachers_for_practice) }

\* select_meetings gone wrong: the links of every campus and language
select_meetings_any_scope(activity_id, campus_id, language) ==
    { [meeting_id |-> m.id, day |-> m.day] : m \in
        { m \in meetings :
            \E l \in activities_meetings :
                /\ m.id = l.meeting_id
                /\ l.activity_id = activity_id } }

\* SELECT the meetings FROM meetings INNER JOIN activities_meetings ON
\* meetings.id = activities_meetings.meeting_id WHERE activity_id = ? AND
\* campus_id = ? AND language_value = ?
select_meetings(activity_id, campus_id, language) ==
    { [meeting_id |-> m.id, day |-> m.day] : m \in
        { m \in meetings :
            \E l \in activities_meetings :
                /\ m.id = l.meeting_id
                /\ l.activity_id = activity_id
                /\ l.campus_id = campus_id
                /\ l.language_value = language } }

\* the line without its campus_id and language_value, unpacked into
\* AcademicActivity, with activity.meetings = meetings
academic_activity(r, campus_id, language) ==
    [name |-> r.name,
     type |-> r.activity_type,
     lecturer_name |-> r.lecturer_name,
     course_number |-> r.course_number,
     parent_course_number |-> r.parent_course_number,
     activity_id |-> r.activity_id,
     meetings |-> select_meetings(r.activity_id, campus_id, language)]

\* activities_result gone wrong: the activities of all the entries are
\* fetched by one query, in whatever order it hands them over
activities_result_one_query(items, campus_id, language) ==
    fetchall(UNION { { [name |-> r.name,
                        type |-> r.activity_type,
                        lecturer_name |-> r.lecturer_name,
                        course_number |-> r.course_number,
                        parent_course_number |-> r.parent_course_number,
                        activity_id |-> r.activity_id,
                        meetings |-> {}] : r \in
                          { q \in activities :
                              /\ q.name = items[i].key
                              /\ q.campus_id = campus_id
                              /\ q.language_value = language } } :
                     i \in 1..Len(items) })

\* for course_name, course_choice in courses_choices.items(): ...
\* activities_result.extend(activities)
RECURSIVE activities_result(_, _, _)
activities_result(items, campus_id, language) ==
    IF items = <<>> THEN {<<>>}
    ELSE LET item == Head(items)
             found == { academic_activity(r, campus_id, language) : r \in
                          select_activities(item.key, item.choice,
                                            campus_id, language) }
         IN  { these \o others :
                 these \in fetchall(found),
                 others \in activities_result(Tail(items), campus_id, language) }

load_activities_by_courses_choices(courses_choices, campus_name, language) ==
    /\ call = Idle
    /\ LET campus == load_campus_id(campus_name)
           asked == [op |-> "load_activities_by_courses_choices",
                     courses_choices |-> courses_choices,
                     campus_name |-> campus_name,
                     language |-> language]
       IN  IF db = "absent"
           THEN call' = asked @@ [raised |-> "none", result |-> <<>>]
           ELSE IF campus.raised # "none"
           THEN call' = asked @@ [raised |-> campus.raised, result |-> <<>>]
           ELSE \E result \in activities_result(courses_choices, campus.id,
                                                language) :
                    call' = asked @@ [raised |-> "none", result |-> result]
    /\ UNCHANGED <<db, tables, saves, saved, the_course>>

(***************************************************************************)
(* save_courses: a plain INSERT of every course; a second row with the     *)
(* key (parent_course_number, language_value) raises IntegrityError and    *)
(* the connection, left by the exception, rolls the call back.  Courses    *)
(* come with their default, empty, set of semesters, so that               *)
(* semesters_courses gets no row.                                          *)
(***************************************************************************)
courses_key(r) == <<r.parent_course_number, r.language_value>>

courses_row(course, language) ==
    [name |-> course.name,
     course_number |-> course.course_number,
     parent_course_number |-> course.parent_course_number,
     language_value |-> language]

RECURSIVE insert_courses(_, _, _)
insert_courses(t, list, language) ==
    IF list = <<>> THEN [raised |-> "none", courses |-> t]
    ELSE LET row == courses_row(Head(list), language)
         IN  IF \E r \in t : courses_key(r) = courses_key(row)
             THEN [raised |-> "IntegrityError", courses |-> t]
             ELSE insert_courses(t \cup {row}, Tail(list), language)

save_courses(list, language) ==
    /\ call = Idle
    /\ db' = connect(db)
    /\ LET done == insert_courses(courses, list, language)
       IN  IF db # "ready" /\ list # <<>>
           THEN /\ call' = [op |-> "save_courses", raised |-> "OperationalError"]
                /\ courses' = courses
           ELSE IF done.raised # "none"
           THEN /\ call' = [op |-> "save_courses", raised |-> done.raised]
                /\ courses' = courses
           ELSE /\ call' = [op |-> "save_courses", raised |-> "none"]
                /\ courses' = done.courses
    /\ UNCHANGED <<campuses, lecturers, activities, courses_lecturers,
                   meetings, activities_meetings, saves, saved, the_course>>

(***************************************************************************)
(* load_active_courses: SELECT DISTINCT the courses FROM courses INNER JOIN *)
(* activities ON parent_course_number, course_number and language_value    *)
(* WHERE activities.campus_id = ? AND courses.language_value = ?; every    *)
(* line is unpacked into Course, whose fourth argument, activity_id, is    *)
(* the line's language_value.                                              *)
(***************************************************************************)
load_active_courses(campus_id, language) ==
    { [name |-> c.name,
       course_number |-> c.course_number,
       parent_course_number |-> c.parent_course_number,
       activity_id |-> c.language_value] : c \in
        { c \in courses :
            /\ c.language_value = language
            /\ \E a \in activities :
                   /\ c.parent_course_number = a.parent_course_number
                   /\ c.course_number = a.course_number
                   /\ c.language_value = a.language_value
                   /\ a.campus_id = campus_id } }

(***************************************************************************)
(* load_courses_choices.                                                   *)
(***************************************************************************)
\* SELECT lecturer_name, is_lecture_rule FROM courses_lecturers WHERE
\* course_number = ? AND parent_course_number = ? AND campus_id = ? AND
\* language_value = ?
select_lecturers(course, campus_id, language) ==
    { r \in courses_lecturers :
        /\ r.course_number = course.course_number
        /\ r.parent_course_number = course.parent_course_number
        /\ r.campus_id = campus_id
        /\ r.language_value = language }

\* add_lecturers gone wrong: the sets of a name are assigned, not added to
add_lecturers_assigning(data, name, rows) ==
    IF rows = {} THEN data
    ELSE LET new == [lectures |->
                         { r.lecturer_name : r \in { q \in rows : q.is_lecture_rule } },
                     practices |->
                         { r.lecturer_name : r \in { q \in rows : ~ q.is_lecture_rule } }]
         IN  [k \in DOMAIN data \cup {name} |-> IF k = name THEN new ELSE data[k]]

\* courses_choices_data[course.name][index].add(lecturer_name), on a
\* defaultdict(lambda: (set(), set())): the key comes with the first add
add_lecturers(data, name, rows) ==
    IF rows = {} THEN data
    ELSE LET old == IF name \in DOMAIN data THEN data[name]
                    ELSE [lectures |-> {}, practices |-> {}]
             new == [lectures |-> old.lectures \cup
                         { r.lecturer_name : r \in { q \in rows : q.is_lecture_rule } },
                     practices |-> old.practices \cup
                         { r.lecturer_name : r \in { q \in rows : ~ q.is_lecture_rule } }]
         IN  [k \in DOMAIN data \cup {name} |-> IF k = name THEN new ELSE data[k]]

\* for course in courses: ...
RECURSIVE courses_choices_data(_, _, _, _)
courses_choices_data(data, list, campus_id, language) ==
    IF list = <<>> THEN data
    ELSE courses_choices_data(
             add_lecturers(data, Head(list).name,
                           select_lecturers(Head(list), campus_id, language)),
             Tail(list), campus_id, language)

\* list gone wrong: the elements come twice
list_twice(s) == { l \o l : l \in fetchall(s) }

\* list(lectures), list(practices): the elements of the set, each once, in
\* the order the set iterates in
list_of(s) == fetchall(s)

\* CourseChoice(course_name, list(lectures), list(practices))
course_choice(course_name, sets) ==
    { [name |-> course_name,
       available_teachers_for_lecture |-> lectures,
       available_teachers_for_practice |-> practices] :
        lectures \in list_of(sets.lectures),
        practices \in list_of(sets.practices) }

\* {course_name: CourseChoice(...) for course_name, (lectures, practices)
\*  in courses_choices_data.items()}
courses_choices(list, campus_id, language) ==
    LET data == courses_choices_data(<<>>, list, campus_id, language)
    IN  IF DOMAIN data = {} THEN {<<>>}
        ELSE { f \in [DOMAIN data ->
                        UNION { course_choice(k, data[k]) : k \in DOMAIN data }] :
                 \A k \in DOMAIN data : f[k] \in course_choice(k, data[k]) }

load_courses_choices(campus_name, language, given) ==
    /\ call = Idle
    /\ db' = connect(db)
    /\ LET campus == load_campus_id(campus_name)
           asked == [op |-> "load_courses_choices",
                     campus_name |-> campus_name,
                     language |-> language,
                     courses |-> given]
       IN  IF campus.raised # "none"
           THEN call' = asked @@ [raised |-> campus.raised, result |-> <<>>]
           ELSE \E list \in (IF given.is_none \/ given.list = <<>>
                             THEN fetchall(load_active_courses(campus.id, language))
                             ELSE {given.list}) :
                    \E result \in courses_choices(list, campus.id, language) :
                        call' = asked @@ [raised |-> "none", result |-> result]
    /\ UNCHANGED <<tables, saves, saved, the_course>>

(***************************************************************************)
(* The caller takes the result; the next call can be made.                 *)
(***************************************************************************)
Return ==
    /\ call # Idle
    /\ call' = Idle
    /\ UNCHANGED <<db, tables, saves, saved, the_course>>

Init ==
    /\ db = "absent"
    /\ campuses = {}
    /\ courses = {}
    /\ lecturers = {}
    /\ activities = {}
    /\ courses_lecturers = {}
    /\ meetings = {}
    /\ activities_meetings = {}
    /\ call = Idle
    /\ saves = 0
    /\ saved = <<>>
    /\ the_course = [attendance_required_for_lecture |-> TRUE,
                     attendance_required_for_practice |-> TRUE]

(***************************************************************************)
(* The calls a client makes, with the inputs it may pass.                  *)
(***************************************************************************)
Setup(campus_rows) ==
    \/ init_database_tables
    \/ clear_database
    \/ \E rows \in (SUBSET campus_rows) \ {{}} : save_campuses(rows)
    \/ Return

Save(acts, names) ==
    \E a \in acts, n \in names, l \in Languages :
        save_academic_activities(<<a>>, n, l)

Retrieve(choices, names) ==
    \E cc \in choices, n \in names, l \in Languages :
        load_activities_by_courses_choices(cc, n, l)

(***************************************************************************)
(* Spec: the retriever's filter.  One campus is ever saved ("Tal_he" stays *)
(* unknown), activities of every kind and lecturer come in both languages. *)
(***************************************************************************)
OneCampus == { r \in CampusRows : r.id = 1 }

FilterActivities ==
    AcademicActivities(CourseNames, Type, LecturerNames, {1}, ActivityIds,
                       {<<>>})

Next ==
    \/ Setup(OneCampus)
    \/ Save(FilterActivities, {"Lev"})
    \/ Retrieve(CoursesChoices(CourseNames), CampusNames)

Spec == Init /\ [][Next]_vars

(***************************************************************************)
(* SpecIndex: the index builder.  Courses of both names and numbers are    *)
(* taught by every lecturer in every kind, in both languages.              *)
(***************************************************************************)
IndexActivities ==
    AcademicActivities(CourseNames, Type, LecturerNames, CourseNumbers,
                       {"a1"}, {<<>>})

SaveCourses(lists, languages) ==
    \E list \in lists, l \in languages : save_courses(list, l)

Build(lists, names) ==
    \E given \in lists, n \in names, l \in Languages :
        load_courses_choices(n, l, given)

NextIndex ==
    \/ Setup(OneCampus)
    \/ Save(IndexActivities, {"Lev"})
    \/ SaveCourses({ <<c>> : c \in { c \in Courses : c.name = "Calculus" /\ c.course_number = 1 } }, {"en"})
    \/ Build(OptionalCourseLists, CampusNames)

SpecIndex == Init /\ [][NextIndex]_vars

(***************************************************************************)
(* SpecScope: one activity id under several campuses and languages.  Both  *)
(* campuses are saved; lectures of one course come under either id, with   *)
(* either lecturer, with no meeting or with one of two.                    *)
(***************************************************************************)
ScopeMeetingLists ==
    { <<>>, << [meeting_id |-> 1, day |-> 1] >>, << [meeting_id |-> 2, day |-> 2] >> }

ScopeActivities ==
    AcademicActivities({"Calculus"}, {"LECTURE"}, LecturerNames, {1},
                       ActivityIds, ScopeMeetingLists)

NextScope ==
    \/ Setup(CampusRows)
    \/ Save(ScopeActivities, CampusNames)
    \/ Retrieve(CoursesChoices({"Calculus"}), CampusNames)

SpecScope == Init /\ [][NextScope]_vars

(***************************************************************************)
(* SpecGroup: the order of the retriever's result.  Lectures of two        *)
(* courses under three ids are saved, up to MaxActivities by a call, in    *)
(* one campus; the retriever is asked for one course or for both, in       *)
(* either order, with any lecturer.                                        *)
(***************************************************************************)
GroupActivities ==
    AcademicActivities(CourseNames, {"LECTURE"}, {"Cohen"}, {1},
                       {"a1", "a2", "a3"}, {<<>>})

\* the lists of at most n activities, none twice
RECURSIVE ActivityLists(_, _)
ActivityLists(acts, n) ==
    IF n = 0 THEN {<<>>}
    ELSE LET shorter == ActivityLists(acts, n - 1)
         IN  shorter \cup
             { Append(list, a) :
                 list \in { s \in shorter : Len(s) = n - 1 },
                 a \in acts } 

GroupActivityLists ==
    { list \in ActivityLists(GroupActivities, MaxActivities) :
        /\ list # <<>>
        /\ \A i, j \in 1..Len(list) : i # j => list[i] # list[j] }

GroupCoursesChoices ==
    { items \in ChoiceItems(CourseNames, MaxGroupChoices) :
        /\ \A i, j \in 1..Len(items) : i # j => items[i].key # items[j].key
        /\ \A i \in 1..Len(items) :
               /\ items[i].choice.available_teachers_for_lecture = {}
               /\ items[i].choice.available_teachers_for_practice = {} }

SaveLists(lists, names, languages) ==
    \E acts \in lists, n \in names, l \in languages :
        save_academic_activities(acts, n, l)

NextGroup ==
    \/ Setup(OneCampus)
    \/ SaveLists(GroupActivityLists, {"Lev"}, {"en"})
    \/ Retrieve(GroupCoursesChoices, {"Lev"})

SpecGroup == Init /\ [][NextGroup]_vars

(***************************************************************************)
(* data/course.py: Course.__eq__ and Course.__hash__, and the attendance   *)
(* flags.  A hash is modelled by the tuple it is taken of: two hashes are  *)
(* equal when the tuples are.                                              *)
(***************************************************************************)
\* Python's truth value of an activity_id: None and "" are false
truthy(activity_id) == activity_id \notin {NONE, ""}

\* Course.__eq__
course_eq(self, other) ==
    IF truthy(self.activity_id) /\ truthy(other.activity_id)
    THEN self.activity_id = other.activity_id
    ELSE /\ self.name = other.name
         /\ self.course_number = other.course_number
         /\ self.parent_course_number = other.parent_course_number

\* Course.__hash__
course_hash(self) ==
    <<self.name, self.course_number, self.parent_course_number>>

\* Course instances, with and without an activity_id
CourseObjects ==
    [name : CourseNames, course_number : CourseNumbers,
     parent_course_number : ParentNumbers,
     activity_id : {NONE, ""} \cup ActivityIds]

\* a == b, hash(a), hash(b)
compare_courses(a, b) ==
    /\ call = Idle
    /\ call' = [op |-> "__eq__", self |-> a, other |-> b,
                result |-> course_eq(a, b),
                hash_self |-> course_hash(a),
                hash_other |-> course_hash(b)]
    /\ UNCHANGED <<db, tables, saves, saved, the_course>>

\* Course.__init__: both attendance flags start True
new_course ==
    /\ call = Idle
    /\ the_course' = [attendance_required_for_lecture |-> TRUE,
                  attendance_required_for_practice |-> TRUE]
    /\ call' = [op |-> "__init__"]
    /\ UNCHANGED <<db, tables, saves, saved>>

\* set_attendance_required gone wrong: every kind that is not lecture-like
\* sets the practice flag
set_flags_else(c, course_type, required) ==
    IF is_lecture(course_type)
    THEN [c EXCEPT !.attendance_required_for_lecture = required]
    ELSE [c EXCEPT !.attendance_required_for_practice = required]

\* the flags after Course.set_attendance_required(course_type, required)
set_flags(c, course_type, required) ==
    IF is_lecture(course_type)
    THEN [c EXCEPT !.attendance_required_for_lecture = required]
    ELSE IF is_exercise(course_type)
    THEN [c EXCEPT !.attendance_required_for_practice = required]
    ELSE c

\* what Course.is_attendance_required(course_type) returns
attendance_required(c, course_type) ==
    IF is_lecture(course_type) THEN c.attendance_required_for_lecture
    ELSE IF is_exercise(course_type) THEN c.attendance_required_for_practice
    ELSE TRUE

set_attendance_required(course_type, required) ==
    /\ call = Idle
    /\ the_course' = set_flags(the_course, course_type, required)
    /\ call' = [op |-> "set_attendance_required",
                course_type |-> course_type, required |-> required]
    /\ UNCHANGED <<db, tables, saves, saved>>

is_attendance_required(course_type) ==
    /\ call = Idle
    /\ call' = [op |-> "is_attendance_required",
                course_type |-> course_type,
                result |-> attendance_required(the_course, course_type)]
    /\ UNCHANGED <<db, tables, saves, saved, the_course>>

NextCourse ==
    \/ \E a, b \in CourseObjects : compare_courses(a, b)
    \/ new_course
    \/ \E t \in Type, required \in BOOLEAN : set_attendance_required(t, required)
    \/ \E t \in Type : is_attendance_required(t)
    \/ Return

SpecCourse == Init /\ [][NextCourse]_vars

(***************************************************************************)
(* Properties of the index builder, checked under SpecIndex.               *)
(***************************************************************************)
\* load_courses_choices was called with a non-empty list and has returned
BuiltFromList ==
    /\ call.op = "load_courses_choices"
    /\ call.raised = "none"
    /\ ~ call.courses.is_none
    /\ call.courses.list # <<>>

\* the campus id the call just made was scoped by
call_campus_id == load_campus_id(call.campus_name).id

\* the lecturer rows the store holds for a course in the scope of the call
call_lecturers(course) ==
    select_lecturers(course, call_campus_id, call.language)

\* C1: every course name of a non-empty input list is a key of the mapping
\* that load_courses_choices returns, whatever lecturer rows the store holds.
C1_EveryNameIsKey ==
    BuiltFromList =>
        \A i \in 1..Len(call.courses.list) :
            call.courses.list[i].name \in DOMAIN call.result

\* C2: a course of the input for which the store holds no lecturer row in
\* the scope is mapped to a CourseChoice with two empty collections.
C2_NoLecturersEmptyChoice ==
    BuiltFromList =>
        \A i \in 1..Len(call.courses.list) :
            call_lecturers(call.courses.list[i]) = {} =>
                /\ call.courses.list[i].name \in DOMAIN call.result
                /\ call.result[call.courses.list[i].name]
                       .available_teachers_for_lecture = <<>>
                /\ call.result[call.courses.list[i].name]
                       .available_teachers_for_practice = <<>>

\* the list in the order p
reordered(list, p) == [i \in 1..Len(list) |-> list[p[i]]]

\* the lecturers the store holds, with the role flag is_lecture_rule, for
\* the courses of the input named name
lecturers_of_name(name, is_lecture_rule) ==
    UNION { { r.lecturer_name :
                r \in { q \in call_lecturers(call.courses.list[i]) :
                          q.is_lecture_rule = is_lecture_rule } } :
            i \in { j \in 1..Len(call.courses.list) :
                      call.courses.list[j].name = name } }

\* the elements of a list
members(l) == { l[i] : i \in 1..Len(l) }

\* an index, by the membership of its lists
membership(index) ==
    [name \in DOMAIN index |->
        [lectures |-> members(index[name].available_teachers_for_lecture),
         practices |-> members(index[name].available_teachers_for_practice)]]

\* C9: every index built from a reordering of the list, or from the list
\* once more, has the names and the memberships of the index built from the
\* list, and under each name the lecture and the practice lists hold the
\* unions of the lecturers of all the input courses of that name.
C9_OrderIndependentUnion ==
    BuiltFromList =>
        /\ \A p \in Permutations(1..Len(call.courses.list)) :
               \A again \in courses_choices(reordered(call.courses.list, p),
                                             call_campus_id, call.language) :
                   membership(again) = membership(call.result)
        /\ \A name \in DOMAIN call.result :
               /\ members(call.result[name].available_teachers_for_lecture) =
                      lecturers_of_name(name, TRUE)
               /\ members(call.result[name].available_teachers_for_practice) =
                      lecturers_of_name(name, FALSE)

\* C9's case: two different courses of one name, in either order, each with
\* a lecturer the other does not have, and both lecturers in the index
C9_Witness ==
    /\ BuiltFromList
    /\ Len(call.courses.list) = 2
    /\ call.courses.list[1].name = call.courses.list[2].name
    /\ call.courses.list[1] # call.courses.list[2]
    /\ \E r1 \in call_lecturers(call.courses.list[1]),
          r2 \in call_lecturers(call.courses.list[2]) :
           /\ r1.is_lecture_rule /\ r2.is_lecture_rule
           /\ r1.lecturer_name # r2.lecturer_name
           /\ r1 \notin call_lecturers(call.courses.list[2])
           /\ r2 \notin call_lecturers(call.courses.list[1])
           /\ {r1.lecturer_name, r2.lecturer_name} \subseteq
                  members(call.result[call.courses.list[1].name]
                              .available_teachers_for_lecture)

\* load_courses_choices has returned an index
Built ==
    /\ call.op = "load_courses_choices"
    /\ call.raised = "none"

\* the courses the index of the call was built from
built_from ==
    IF call.courses.is_none \/ call.courses.list = <<>>
    THEN load_active_courses(call_campus_id, call.language)
    ELSE members(call.courses.list)

\* the store holds, for an input course named name in the scope of the
\* call, a row of the lecturer with the role flag is_lecture_rule
holds_pair(name, lecturer_name, is_lecture_rule) ==
    \E course \in built_from :
        /\ course.name = name
        /\ \E r \in call_lecturers(course) :
               /\ r.lecturer_name = lecturer_name
               /\ r.is_lecture_rule = is_lecture_rule

\* the lecturer is in the group of the name in the index of the call
in_group(name, lecturer_name, is_lecture_rule) ==
    /\ name \in DOMAIN call.result
    /\ lecturer_name \in
           members(IF is_lecture_rule
                   THEN call.result[name].available_teachers_for_lecture
                   ELSE call.result[name].available_teachers_for_practice)

\* no element comes twice in the list
once(l) == \A i, j \in 1..Len(l) : i # j => l[i] # l[j]

\* C11: in the built index a lecturer is in the lecture group of a course
\* name exactly when the store holds, for an input course of that name in
\* the campus and the language of the call, a row of that lecturer with the
\* role flag true, and in the practice group exactly when it holds one
\* with the flag false; no lecturer comes twice in a group.
C11_GroupedByRoleFlagOnce ==
    Built =>
        /\ \A name \in CourseNames, lecturer_name \in LecturerNames,
              is_lecture_rule \in BOOLEAN :
               in_group(name, lecturer_name, is_lecture_rule)
                   <=> holds_pair(name, lecturer_name, is_lecture_rule)
        /\ \A name \in DOMAIN call.result :
               /\ once(call.result[name].available_teachers_for_lecture)
               /\ once(call.result[name].available_teachers_for_practice)

\* C11's case: two input courses of one name, the same lecturer gives the
\* lectures of both; the lecturer is once in the lecture group and not in
\* the practice group
C11_Witness ==
    /\ BuiltFromList
    /\ Len(call.courses.list) = 2
    /\ call.courses.list[1].name = call.courses.list[2].name
    /\ \E r1 \in call_lecturers(call.courses.list[1]),
          r2 \in call_lecturers(call.courses.list[2]) :
           /\ r1 # r2
           /\ r1.is_lecture_rule /\ r2.is_lecture_rule
           /\ r1.lecturer_name = r2.lecturer_name
           /\ call.result[call.courses.list[1].name]
                  = [name |-> call.courses.list[1].name,
                     available_teachers_for_lecture |-> <<r1.lecturer_name>>,
                     available_teachers_for_practice |-> <<>>]

\* C13: when a course list is given to load_courses_choices, the empty
\* list too, every key of the returned mapping is the name of a course of
\* the list; the active courses are taken only when no list is given.
C13_SuppliedListOnly ==
    (Built /\ ~ call.courses.is_none) =>
        \A name \in DOMAIN call.result :
            \E i \in 1..Len(call.courses.list) :
                call.courses.list[i].name = name

\* the activities saved, by calls that went through, in the campus and the
\* language of the call
saved_in_scope ==
    UNION { members(saved[i].activities) :
              i \in { j \in 1..Len(saved) :
                        /\ saved[j].campus_id = call_campus_id
                        /\ saved[j].language = call.language } }

\* C15: after any saves, for every activity saved in the campus and the
\* language of a build and every input course with the activity's
\* course_number and parent_course_number, the index lists the activity's
\* lecturer under the course's name, in the lecture group when the
\* activity's type is lecture-like and in the practice group otherwise.
C15_SavedLecturerIsListed ==
    Built =>
        \A a \in saved_in_scope, course \in built_from :
            (/\ course.course_number = a.course_number
             /\ course.parent_course_number = a.parent_course_number)
                => in_group(course.name, a.lecturer_name, is_lecture(a.type))

\* no row in any table
EmptyTables ==
    [lecturers |-> {}, activities |-> {}, courses_lecturers |-> {},
     meetings |-> {}, activities_meetings |-> {}]

\* the tables as the saves of the log made in one campus and language
\* leave them, the saves made in another campus or language left out
RECURSIVE saved_alone(_, _, _, _)
saved_alone(t, log, campus_id, language) ==
    IF log = <<>> THEN t
    ELSE saved_alone(
             IF Head(log).campus_id = campus_id /\ Head(log).language = language
             THEN save_activities(t, Head(log).activities, campus_id, language)
             ELSE t,
             Tail(log), campus_id, language)

\* the tables of the scope of the call, had no other scope been saved to
alone == saved_alone(EmptyTables, saved, call_campus_id, call.language)

\* C14: what a build from a given list and what a retrieval return in a
\* campus and a language is what they return when the saves made in every
\* other campus or language have not happened: the groups of the index are
\* those of the lecturer rows of the scope's own saves, the returned
\* activities are rows of the scope's own saves and carry the meetings of
\* the scope's own saves, and the scope's own rows are all in the store.
C14_ScopesIndependent ==
    /\ BuiltFromList =>
           \A name \in CourseNames, lecturer_name \in LecturerNames,
              is_lecture_rule \in BOOLEAN :
               in_group(name, lecturer_name, is_lecture_rule)
                   <=> \E i \in 1..Len(call.courses.list) :
                           /\ call.courses.list[i].name = name
                           /\ \E r \in alone.courses_lecturers :
                                  /\ r.course_number =
                                         call.courses.list[i].course_number
                                  /\ r.parent_course_number =
                                         call.courses.list[i].parent_course_number
                                  /\ r.lecturer_name = lecturer_name
                                  /\ r.is_lecture_rule = is_lecture_rule
    /\ (call.op = "load_activities_by_courses_choices"
          /\ call.raised = "none" /\ db # "absent") =>
           /\ \A j \in 1..Len(call.result) :
                  /\ [name |-> call.result[j].name,
                      activity_type |-> call.result[j].type,
                      lecturer_name |-> call.result[j].lecturer_name,
                      course_number |-> call.result[j].course_number,
                      parent_course_number |->
                          call.result[j].parent_course_number,
                      activity_id |-> call.result[j].activity_id,
                      campus_id |-> call_campus_id,
                      language_value |-> call.language] \in alone.activities
                  /\ { [id |-> m.meeting_id, day |-> m.day] :
                          m \in call.result[j].meetings }
                         = { m \in alone.meetings :
                               \E l \in alone.activities_meetings :
                                   /\ l.meeting_id = m.id
                                   /\ l.activity_id = call.result[j].activity_id }
           /\ alone.activities =
                  { r \in activities : /\ r.campus_id = call_campus_id
                                       /\ r.language_value = call.language }

(***************************************************************************)
(* Properties of the retriever's filter, checked under Spec.               *)
(***************************************************************************)
\* load_activities_by_courses_choices was called
RetrieveCalled == call.op = "load_activities_by_courses_choices"

\* ... and its queries ran and it returned their rows
Retrieved ==
    /\ RetrieveCalled
    /\ call.raised = "none"
    /\ db # "absent"

\* the returned activities named name
returned_for(name) ==
    { call.result[i] :
        i \in { j \in 1..Len(call.result) : call.result[j].name = name } }

\* a returned activity as the row of the scope of the call
as_row(a) ==
    [name |-> a.name,
     activity_type |-> a.type,
     lecturer_name |-> a.lecturer_name,
     course_number |-> a.course_number,
     parent_course_number |-> a.parent_course_number,
     activity_id |-> a.activity_id,
     campus_id |-> call_campus_id,
     language_value |-> call.language]

\* the rows stored under a course name in the scope of the call
stored_for(name) ==
    { r \in activities :
        /\ r.name = name
        /\ r.campus_id = call_campus_id
        /\ r.language_value = call.language }

\* C3 as claimed: a choice with no lecturer for lectures and none for
\* practices returns every activity stored for the course name in the scope,
\* whatever its lecturer and its kind.
C3_EmptyChoiceReturnsAll ==
    Retrieved =>
        \A i \in 1..Len(call.courses_choices) :
            LET item == call.courses_choices[i]
            IN  (/\ item.choice.available_teachers_for_lecture = {}
                 /\ item.choice.available_teachers_for_practice = {})
                => { as_row(a) : a \in returned_for(item.key) }
                       = stored_for(item.key)

\* C3 amended: a choice with no lecturer for lectures and none for
\* practices returns every LECTURE, SEMINAR, PRACTICE and LAB activity
\* stored for the course name in the scope, whatever its lecturer; an
\* activity of another kind is not returned.
C3_EmptyChoiceReturnsAllOfTheFourKinds ==
    Retrieved =>
        \A i \in 1..Len(call.courses_choices) :
            LET item == call.courses_choices[i]
            IN  (/\ item.choice.available_teachers_for_lecture = {}
                 /\ item.choice.available_teachers_for_practice = {})
                => { as_row(a) : a \in returned_for(item.key) }
                       = { r \in stored_for(item.key) :
                             r.activity_type \in
                                 {"LECTURE", "SEMINAR", "PRACTICE", "LAB"} }

\* C3's case: an empty choice, a stored activity of the course that is
\* returned and one of another kind that is not
C3_Witness ==
    /\ Retrieved
    /\ Len(call.courses_choices) = 1
    /\ call.courses_choices[1].choice.available_teachers_for_lecture = {}
    /\ call.courses_choices[1].choice.available_teachers_for_practice = {}
    /\ Len(call.result) = 1
    /\ \E r \in stored_for(call.courses_choices[1].key) :
           /\ r.activity_type = "OTHER"
           /\ r.lecturer_name # call.result[1].lecturer_name

\* C4: with a non-empty set L of lecturers chosen for the lectures, no
\* returned LECTURE or SEMINAR of the course has a lecturer outside L, and
\* the returned PRACTICE and LAB activities of the course are those that
\* any other set in place of L would give.
C4_LectureChoiceFiltersLecturesOnly ==
    Retrieved =>
        \A i \in 1..Len(call.courses_choices) :
            LET item == call.courses_choices[i]
                L == item.choice.available_teachers_for_lecture
            IN  L # {} =>
                /\ \A a \in returned_for(item.key) :
                       a.type \in {"LECTURE", "SEMINAR"} => a.lecturer_name \in L
                /\ \A L2 \in SUBSET LecturerNames :
                       { as_row(a) : a \in
                           { b \in returned_for(item.key) :
                               b.type \in {"PRACTICE", "LAB"} } }
                       = { r \in select_activities(
                                     item.key,
                                     [item.choice EXCEPT
                                        !.available_teachers_for_lecture = L2],
                                     call_campus_id, call.language) :
                             r.activity_type \in {"PRACTICE", "LAB"} }

\* C4's case: lectures restricted to Cohen, Smith's lecture of the course
\* is left out and Smith's practice is returned
C4_Witness ==
    /\ Retrieved
    /\ Len(call.courses_choices) = 1
    /\ call.courses_choices[1].choice.available_teachers_for_lecture = {"Cohen"}
    /\ \E r \in stored_for(call.courses_choices[1].key) :
           /\ r.activity_type \in {"LECTURE", "SEMINAR"}
           /\ r.lecturer_name = "Smith"
    /\ Len(call.result) = 1
    /\ call.result[1].type \in {"PRACTICE", "LAB"}
    /\ call.result[1].lecturer_name = "Smith"

C10_ReturnedExactlyTheMatching ==
    Retrieved =>
        /\ \A i \in 1..Len(call.courses_choices) :
               LET item == call.courses_choices[i]
                   L == item.choice.available_teachers_for_lecture
                   P == item.choice.available_teachers_for_practice
               IN  { as_row(a) : a \in returned_for(item.key) }
                   = { r \in activities :
                         /\ r.name = item.key
                         /\ r.campus_id = call_campus_id
                         /\ r.language_value = call.language
                         /\ \/ /\ r.activity_type \in {"LECTURE", "SEMINAR"}
                               /\ (L = {} \/ r.lecturer_name \in L)
                            \/ /\ r.activity_type \in {"PRACTICE", "LAB"}
                               /\ (P = {} \/ r.lecturer_name \in P) }
        /\ \A j \in 1..Len(call.result) :
               \E i \in 1..Len(call.courses_choices) :
                   call.courses_choices[i].key = call.result[j].name

\* C10's case: L = {"Cohen"} and P = {}, and the call returns a practice
\* of Smith and a lecture of Cohen
C10_Witness ==
    /\ Retrieved
    /\ Len(call.courses_choices) = 1
    /\ call.courses_choices[1].choice.available_teachers_for_lecture = {"Cohen"}
    /\ call.courses_choices[1].choice.available_teachers_for_practice = {}
    /\ Len(call.result) = 2
    /\ \E a, b \in returned_for(call.courses_choices[1].key) :
           /\ a.type \in {"LECTURE", "SEMINAR"} /\ a.lecturer_name = "Cohen"
           /\ b.type \in {"PRACTICE", "LAB"} /\ b.lecturer_name = "Smith"

(***************************************************************************)
(* Properties of the retriever across scopes, checked under SpecScope.     *)
(***************************************************************************)
\* C5: no two entries of the sequence the retriever returns have the same
\* activity_id (all of them are of the campus and the language of the call).
C5_NoDuplicateActivity ==
    Retrieved =>
        \A i, j \in 1..Len(call.result) :
            i # j =>
                <<call.result[i].activity_id, call_campus_id, call.language>>
                # <<call.result[j].activity_id, call_campus_id, call.language>>

\* C5's case: an activity was saved twice under one id in one scope, with
\* one lecturer and with the other; the second row was refused and the
\* retriever returns the activity once
C5_Witness ==
    /\ Retrieved
    /\ saves = 2
    /\ Cardinality(activities) = 1
    /\ Cardinality(lecturers) = 2
    /\ Len(call.result) = 1

\* the meeting ids linked to an activity id in a scope
linked(activity_id, campus_id, language) ==
    { l.meeting_id : l \in
        { k \in activities_meetings :
            /\ k.activity_id = activity_id
            /\ k.campus_id = campus_id
            /\ k.language_value = language } }

\* C7: every returned activity carries exactly the meetings linked to its
\* activity_id in the campus and the language of the call: none linked to
\* that id in another scope only, and none of its own missing.
C7_MeetingsOfTheScope ==
    Retrieved =>
        \A j \in 1..Len(call.result) :
            /\ { m.meeting_id : m \in call.result[j].meetings }
                   = linked(call.result[j].activity_id, call_campus_id,
                            call.language)
            /\ \A m \in call.result[j].meetings :
                   [id |-> m.meeting_id, day |-> m.day] \in meetings

\* C7's case: the returned activity has a meeting, and its id has another
\* meeting in another scope, which is not attached
C7_Witness ==
    /\ Retrieved
    /\ Len(call.result) = 1
    /\ call.result[1].meetings # {}
    /\ \E l \in activities_meetings :
           /\ l.activity_id = call.result[1].activity_id
           /\ <<l.campus_id, l.language_value>> # <<call_campus_id, call.language>>
           /\ l.meeting_id \notin
                  { m.meeting_id : m \in call.result[1].meetings }

(***************************************************************************)
(* Properties of the order of the retriever's result, checked under        *)
(* SpecGroup.                                                              *)
(***************************************************************************)
\* the place of a course name in the iteration order of courses_choices
place(name) ==
    CHOOSE i \in 1..Len(call.courses_choices) :
        call.courses_choices[i].key = name

\* C12: the activities returned for one entry of courses_choices are
\* contiguous in the returned sequence, the groups come in the iteration
\* order of the mapping, and no activity of another course stands between
\* two activities of one course.
C12_GroupedBySourceCourse ==
    Retrieved =>
        /\ \A i, j \in 1..Len(call.result) :
               i < j => place(call.result[i].name) <= place(call.result[j].name)
        /\ \A i, j, k \in 1..Len(call.result) :
               (i < j /\ j < k /\ call.result[i].name = call.result[k].name)
                   => call.result[j].name = call.result[i].name

\* C12's case: both courses are asked for, two activities of one and one of
\* the other are returned
C12_Witness ==
    /\ Retrieved
    /\ Len(call.courses_choices) = 2
    /\ Len(call.result) = 3
    /\ call.result[1].name = call.courses_choices[1].key
    /\ call.result[3].name = call.courses_choices[2].key
    /\ call.result[1].activity_id = "a3"

(***************************************************************************)
(* Properties of Course, checked under SpecCourse.                         *)
(***************************************************************************)
\* C8: two Course instances that are equal have equal hashes, with or
\* without an activity_id.
C8_EqualCoursesHashAlike ==
    (call.op = "__eq__" /\ call.result) => call.hash_self = call.hash_other

\* C16: a new Course has both flags True; a step of
\* set_attendance_required(kind, r) leaves is_attendance_required(kind)
\* returning r when the kind is lecture-like or practice-like, with the flag
\* of the other group as it was, and changes nothing when the kind is in
\* neither group, for which is_attendance_required returns True; and
\* is_attendance_required returns the flag of the group of the kind.
C16_AttendanceSettablePerKind ==
    [][/\ call'.op = "__init__" =>
              /\ the_course'.attendance_required_for_lecture
              /\ the_course'.attendance_required_for_practice
       /\ call'.op = "set_attendance_required" =>
              LET kind == call'.course_type
              IN  /\ kind \in {"LECTURE", "SEMINAR"} =>
                         /\ attendance_required(the_course', kind) = call'.required
                         /\ the_course'.attendance_required_for_practice
                                = the_course.attendance_required_for_practice
                  /\ kind \in {"PRACTICE", "LAB"} =>
                         /\ attendance_required(the_course', kind) = call'.required
                         /\ the_course'.attendance_required_for_lecture
                                = the_course.attendance_required_for_lecture
                  /\ kind \notin {"LECTURE", "SEMINAR", "PRACTICE", "LAB"} =>
                         /\ the_course' = the_course
                         /\ attendance_required(the_course', kind)
       /\ call'.op = "is_attendance_required" =>
              call'.result =
                  CASE call'.course_type \in {"LECTURE", "SEMINAR"} ->
                           the_course.attendance_required_for_lecture
                    [] call'.course_type \in {"PRACTICE", "LAB"} ->
                           the_course.attendance_required_for_practice
                    [] OTHER -> TRUE]_vars

\* C16's case: the practice flag was set to False and the lecture flag was
\* not, and asking for a LAB returned False
C16_Witness ==
    /\ call.op = "is_attendance_required"
    /\ call.course_type = "LAB"
    /\ call.result = FALSE
    /\ the_course.attendance_required_for_lecture
    /\ ~ the_course.attendance_required_for_practice

\* C17: Course equality is an equivalence relation over all Course
\* instances, with and without an activity_id: a == a, a == b exactly when
\* b == a, and a == b and b == c imply a == c.
C17_EqualityIsEquivalence ==
    call.op = "__eq__" =>
        /\ course_eq(call.self, call.self)
        /\ call.result = course_eq(call.other, call.self)
        /\ call.result =>
               \A c \in CourseObjects :
                   course_eq(call.other, c) => course_eq(call.self, c)

====
